---- MODULE Spec2Model ----
(***************************************************************************)
(* Model of the Multimodal-RAG-Voice-Assistant server:                     *)
(*   - the chat endpoint and the routing graph it runs                     *)
(*     (server/app/api/v1/endpoints/chat.py, server/app/agent/nodes.py);   *)
(*   - the unwired web-search node (nodes.py, tools/web_search.py);        *)
(*   - the upload endpoint (server/app/api/v1/endpoints/upload.py).        *)
(* Python strings are TLA+ strings, f-strings and str.join are \o.         *)
(* A dict is a function from keys to values, dict.get is Get.              *)
(***************************************************************************)
EXTENDS Integers, Sequences, FiniteSets, TLC

VARIABLES
    pc,             \* chat request -> where the request is (endpoint / graph node)
    raw,            \* chat request -> the JSON body as posted (fields may be omitted)
    state,          \* chat request -> its AgentState dict
    exc,            \* chat request -> text of the exception in flight ("" when none)
    response,       \* chat request -> the dict the endpoint returned
    executed,       \* chat request -> the graph nodes run so far, in order
    retrievalLog,   \* chat request -> calls made to vector_store / the retriever
    llmLog,         \* chat request -> calls made to a chat model
    searchLog,      \* chat request -> calls made to the web-search tool
    tavily_api_key, \* web_search.py module global read at import
    vstore,         \* the vector store: session_id -> chunks stored for it
    upc,            \* upload request -> where upload_file is
    ufile,          \* upload request -> the UploadFile (filename, size) and Form session_id
    upath,          \* upload request -> file_path ("" before it is computed)
    uchunks,        \* upload request -> document_chunks
    uout,           \* upload request -> the exception in flight or the value returned
    closed,         \* upload request -> file.close() has run
    parseLog,       \* upload request -> calls made to document_parser.parse_file
    addLog,         \* upload request -> calls made to vector_store.add_documents_to_store
    fs,             \* the files present in temp_uploads
    uuids,          \* how many uuid4 values have been drawn
    loop            \* the upload request running between two awaits (0: none)

chatVars == <<pc, raw, state, exc, response, executed, retrievalLog, llmLog,
              searchLog, tavily_api_key>>

uploadVars == <<upc, ufile, upath, uchunks, uout, closed, parseLog, addLog,
                fs, uuids, loop>>

vars == <<chatVars, vstore, uploadVars>>

----------------------------------------------------------------------------
(* Bounds *)

\* chat requests in flight through the shared graph object
MaxChat == 1
\* snippets the vector store holds for one session
MaxDocs == 2

\* upload requests in flight
MaxUpload == 2
\* chunks the parser extracts from one file
MaxChunks == 2

\* turns in the history a generation node is handed
MaxHistory == 2

Chats == 1..MaxChat
Uploads == 1..MaxUpload

----------------------------------------------------------------------------
(* Python helpers *)

Last(s) == s[Len(s)]

\* s[:-1]
Front(s) == SubSeq(s, 1, Len(s) - 1)

\* dict.get(key, default)
Get(d, key, default) == IF key \in DOMAIN d THEN d[key] ELSE default

\* sep.join(parts)
RECURSIVE Join(_, _)
Join(sep, parts) ==
    IF Len(parts) = 0 THEN ""
    ELSE IF Len(parts) = 1 THEN parts[1]
    ELSE parts[1] \o sep \o Join(sep, Tail(parts))

EmptyDict == [k \in {} |-> ""]

\* sub in s
Contains(s, sub) ==
    \E i \in 1..(Len(s) - Len(sub) + 1) : SubSeq(s, i, i + Len(sub) - 1) = sub

\* str.strip(): leading and trailing whitespace removed.  The ASCII characters
\* str.isspace holds for: 0x09-0x0d, 0x1c-0x1f and the space (the last five
\* literals hold the raw characters 0x0b, 0x1c, 0x1d, 0x1e, 0x1f); the
\* non-ASCII spaces are outside what a string here can hold
Whitespace ==
    {" ", "\t", "\n", "\r", "\f", "", "", "", "", ""}
RECURSIVE Strip(_)
Strip(s) ==
    IF Len(s) = 0 THEN s
    ELSE IF SubSeq(s, 1, 1) \in Whitespace THEN Strip(SubSeq(s, 2, Len(s)))
    ELSE IF SubSeq(s, Len(s), Len(s)) \in Whitespace
    THEN Strip(SubSeq(s, 1, Len(s) - 1))
    ELSE s

\* str.lower() on ASCII text
UpperCase == "ABCDEFGHIJKLMNOPQRSTUVWXYZ"
LowerCase == "abcdefghijklmnopqrstuvwxyz"
LowerChar(c) ==
    IF \E i \in 1..Len(UpperCase) : SubSeq(UpperCase, i, i) = c
    THEN LET i == CHOOSE i \in 1..Len(UpperCase) : SubSeq(UpperCase, i, i) = c
         IN  SubSeq(LowerCase, i, i)
    ELSE c
RECURSIVE Lower(_)
Lower(s) ==
    IF Len(s) = 0 THEN s
    ELSE LowerChar(SubSeq(s, 1, 1)) \o Lower(SubSeq(s, 2, Len(s)))

\* what a node hands back: the state update, the backend calls it made, and
\* the text of the exception it raised ("" when it returned normally)
Returned(update, calls) == [update |-> update, calls |-> calls, error |-> ""]
Raised(error, calls) == [update |-> EmptyDict, calls |-> calls, error |-> error]

----------------------------------------------------------------------------
(* Chat endpoint: request model and graph input *)

DefaultSystemPrompt ==
    "You are a helpful and friendly AI assistant. Provide clear, accurate, and concise responses to user questions."

\* pydantic model: use_rag and system_prompt have defaults
ChatRequest(body) ==
    [session_id    |-> body.session_id,
     message       |-> body.message,
     use_rag       |-> Get(body, "use_rag", FALSE),
     system_prompt |-> Get(body, "system_prompt", DefaultSystemPrompt)]

HumanMessage(content) == [type |-> "human", content |-> content]

\* the inputs dict chat() hands to the graph
ChatInputs(request) ==
    [messages      |-> <<HumanMessage(request.message)>>,
     use_rag       |-> request.use_rag,
     session_id    |-> request.session_id,
     system_prompt |-> request.system_prompt]

GenericError == "Sorry, an error occurred while processing your request."

\* request bodies posted to /chat
SessionIds == {"", "s1", "s2"}
MessageTexts == {"Hello", "Summarize this"}
CustomPrompts == {"Answer in one line."}
Bodies ==
    {b @@ o1 @@ o2 :
        b \in [session_id : SessionIds, message : MessageTexts],
        o1 \in {EmptyDict} \cup [use_rag : BOOLEAN],
        o2 \in {EmptyDict} \cup [system_prompt : CustomPrompts]}

----------------------------------------------------------------------------
(* Backends: opaque collaborators, modelled by their interface *)

\* the documents the vector store holds, per session
DocPool == <<"A", "B", "C", "D">>
InitialStore ==
    [sid \in SessionIds \ {""} |->
        IF sid = "s1" THEN SubSeq(DocPool, 1, MaxDocs) ELSE <<"Z">>]

\* a session nothing was stored for has no documents
StoreDocs(store, session_id) ==
    IF session_id \in DOMAIN store THEN store[session_id] ELSE <<>>

\* what the backend does with one retrieval: get_retriever raises,
\* retriever.invoke raises, or the k best snippets of the session come back
RetrievalOutcomes(store, session_id) ==
    {[kind |-> "get_retriever_raises", docs |-> <<>>],
     [kind |-> "invoke_raises", docs |-> <<>>]}
    \cup {[kind |-> "docs", docs |-> SubSeq(StoreDocs(store, session_id), 1, k)] :
            k \in 0..Len(StoreDocs(store, session_id))}

\* chat models
llm_gemini == [name |-> "llm_gemini", temperature_x10 |-> 0]
llm_gemini_rag == [name |-> "llm_gemini_rag", temperature_x10 |-> 7]

\* llm.invoke(messages): the reply is some function of the model and of the
\* whole message sequence it was sent
Invoke(llm, messages) ==
    [type    |-> "ai",
     content |-> llm.name \o "("
                 \o Join("|", [i \in 1..Len(messages) |->
                                 Get(messages[i], "type", "untyped")
                                 \o ":" \o messages[i].content])
                 \o ")"]

LLMOutcomes == {"ok", "raises"}

----------------------------------------------------------------------------
(* Graph nodes (agent/nodes.py) *)

\* keyword router, wired to no edge: which model a last message asks for
route_to_llm(s) ==
    LET lastmessage == Last(s["messages"]).content
    IN  IF Contains(Lower(lastmessage), "creative")
           \/ Contains(Lower(lastmessage), "write")
        THEN "gemini"
        ELSE IF Contains(Lower(lastmessage), "code")
                \/ Contains(Lower(lastmessage), "python")
        THEN "groq"
        ELSE "ginini"

\* the ValueError's text; its em dash (U+2014) is written "--", strings here
\* being ASCII
EmptyLastMessage == "Last message content is empty -- cannot invoke Gemini."

\* wired to no edge: sends the stripped last message alone, as one human
\* message, and raises ValueError when nothing is left of it
generate_gemini(s, out) ==
    LET last_msg == Strip(Last(s["messages"]).content)
        messages == <<HumanMessage(last_msg)>>
        call == [llm |-> llm_gemini, messages |-> messages]
    IN  IF last_msg = ""
        THEN Raised(EmptyLastMessage, <<>>)
        ELSE IF out = "raises"
        THEN Raised("llm_gemini.invoke failed", <<call>>)
        ELSE Returned([messages |-> <<Invoke(llm_gemini, messages)>>], <<call>>)

\* returns {}
agent_entry(s) == Returned(EmptyDict, <<>>)

\* variant: the flag is read the wrong way round
check_for_rag_inverted(s) ==
    IF Get(s, "use_rag", FALSE) THEN "generate_direct" ELSE "rag_retrieval"

\* the conditional edge's router
check_for_rag(s) ==
    IF Get(s, "use_rag", FALSE) THEN "rag_retrieval" ELSE "generate_direct"

NoSessionContext == "Error: No session ID provided for document retrieval."

\* variant: the node also adds the snippets to the conversation as a message
retrieve_from_rag_adds_message(s, out) ==
    LET user_query == Last(s["messages"]).content
        session_id == Get(s, "session_id", "")
        get_call   == [op |-> "get_retriever", session_id |-> session_id, query |-> ""]
        inv_call   == [op |-> "invoke", session_id |-> session_id, query |-> user_query]
        context    == Join("\n\n", out.docs)
    IN  IF session_id = ""
        THEN Returned([context |-> NoSessionContext], <<>>)
        ELSE IF out.kind = "get_retriever_raises"
        THEN Raised("get_retriever failed", <<get_call>>)
        ELSE IF out.kind = "invoke_raises"
        THEN Raised("retriever.invoke failed", <<get_call, inv_call>>)
        ELSE Returned([context  |-> context,
                       messages |-> <<[type |-> "system", content |-> context]>>],
                      <<get_call, inv_call>>)

\* variant: the snippets are retrieved but not written to the state
retrieve_from_rag_returns_nothing(s, out) ==
    LET user_query == Last(s["messages"]).content
        session_id == Get(s, "session_id", "")
        get_call   == [op |-> "get_retriever", session_id |-> session_id, query |-> ""]
        inv_call   == [op |-> "invoke", session_id |-> session_id, query |-> user_query]
    IN  IF session_id = ""
        THEN Returned(EmptyDict, <<>>)
        ELSE IF out.kind = "get_retriever_raises"
        THEN Raised("get_retriever failed", <<get_call>>)
        ELSE IF out.kind = "invoke_raises"
        THEN Raised("retriever.invoke failed", <<get_call, inv_call>>)
        ELSE Returned(EmptyDict, <<get_call, inv_call>>)

\* variant: the retriever is queried with the system prompt, not the last turn
retrieve_from_rag_wrong_query(s, out) ==
    LET user_query == Get(s, "system_prompt", "")
        session_id == Get(s, "session_id", "")
        get_call   == [op |-> "get_retriever", session_id |-> session_id, query |-> ""]
        inv_call   == [op |-> "invoke", session_id |-> session_id, query |-> user_query]
    IN  IF session_id = ""
        THEN Returned([context |-> NoSessionContext], <<>>)
        ELSE IF out.kind = "get_retriever_raises"
        THEN Raised("get_retriever failed", <<get_call>>)
        ELSE IF out.kind = "invoke_raises"
        THEN Raised("retriever.invoke failed", <<get_call, inv_call>>)
        ELSE Returned([context |-> Join("\n\n", out.docs)], <<get_call, inv_call>>)

\* variant: no guard on a missing session_id
retrieve_from_rag_unguarded(s, out) ==
    LET user_query == Last(s["messages"]).content
        session_id == Get(s, "session_id", "")
        get_call   == [op |-> "get_retriever", session_id |-> session_id, query |-> ""]
        inv_call   == [op |-> "invoke", session_id |-> session_id, query |-> user_query]
    IN  IF out.kind = "get_retriever_raises"
        THEN Raised("get_retriever failed", <<get_call>>)
        ELSE IF out.kind = "invoke_raises"
        THEN Raised("retriever.invoke failed", <<get_call, inv_call>>)
        ELSE Returned([context |-> Join("\n\n", out.docs)], <<get_call, inv_call>>)

\* out is the backend's behaviour, read only when the backend is called
retrieve_from_rag(s, out) ==
    LET user_query == Last(s["messages"]).content
        session_id == Get(s, "session_id", "")
        get_call   == [op |-> "get_retriever", session_id |-> session_id, query |-> ""]
        inv_call   == [op |-> "invoke", session_id |-> session_id, query |-> user_query]
    IN  IF session_id = ""
        THEN Returned([context |-> NoSessionContext], <<>>)
        ELSE IF out.kind = "get_retriever_raises"
        THEN Raised("get_retriever failed", <<get_call>>)
        ELSE IF out.kind = "invoke_raises"
        THEN Raised("retriever.invoke failed", <<get_call, inv_call>>)
        ELSE Returned([context |-> Join("\n\n", out.docs)], <<get_call, inv_call>>)

NodeDefaultPrompt == "You are a helpful AI assistant."

\* the f-string of generate_with_context
RagPrompt(user_system_prompt, context, user_query) ==
    user_system_prompt
    \o "\n\n    Use the following document snippets as your primary source of knowledge to answer the user's question. The snippets are from a document the user just uploaded."
    \o "\n\n    If the user's question is general, like \"what is this document about?\" or \"summarize this file\", provide a concise summary of the provided context."
    \o "\n\n    If the user asks a specific question, answer it directly using only the information in the snippets."
    \o "\n\n    If the snippets do not contain the answer to a specific question, state that the provided document doesn't seem to contain that information."
    \o "\n\n    DOCUMENT SNIPPETS:\n    ---\n    "
    \o context
    \o "\n    ---\n\n    USER'S QUESTION:\n    \""
    \o user_query
    \o "\"\n    "

\* variant: the assembled prompt is appended after the last turn
RagMessagesForLLM_appended(s) ==
    LET user_query == Last(s["messages"]).content
        context == Get(s, "context", "")
        user_system_prompt == Get(s, "system_prompt", NodeDefaultPrompt)
        prompt == RagPrompt(user_system_prompt, context, user_query)
    IN  s["messages"] \o <<[type |-> "user", content |-> prompt]>>

\* the message list generate_with_context sends: the last turn is replaced
RagMessagesForLLM(s) ==
    LET user_query == Last(s["messages"]).content
        context == Get(s, "context", "")
        user_system_prompt == Get(s, "system_prompt", NodeDefaultPrompt)
        prompt == RagPrompt(user_system_prompt, context, user_query)
    IN  Front(s["messages"]) \o <<[type |-> "user", content |-> prompt]>>

\* variant: the node returns the whole list it sent plus the reply
generate_with_context_returns_history(s, out) ==
    LET messages_for_llm == RagMessagesForLLM(s)
        call == [llm |-> llm_gemini, messages |-> messages_for_llm]
    IN  IF out = "raises"
        THEN Raised("llm_gemini.invoke failed", <<call>>)
        ELSE Returned([messages |-> messages_for_llm
                                    \o <<Invoke(llm_gemini, messages_for_llm)>>],
                      <<call>>)

generate_with_context(s, out) ==
    LET messages_for_llm == RagMessagesForLLM(s)
        call == [llm |-> llm_gemini, messages |-> messages_for_llm]
    IN  IF out = "raises"
        THEN Raised("llm_gemini.invoke failed", <<call>>)
        ELSE Returned([messages |-> <<Invoke(llm_gemini, messages_for_llm)>>], <<call>>)

\* variant: every turn of the history is sent with the user role
DirectMessagesForLLM_all_user(s) ==
    LET user_system_prompt == Get(s, "system_prompt", NodeDefaultPrompt)
    IN  <<[type |-> "system", content |-> user_system_prompt]>>
        \o [i \in 1..Len(s["messages"]) |->
              [type |-> "user", content |-> s["messages"][i].content]]

\* the message list generate_direct sends: system prompt, then the history
DirectMessagesForLLM(s) ==
    LET user_system_prompt == Get(s, "system_prompt", NodeDefaultPrompt)
    IN  <<[type |-> "system", content |-> user_system_prompt]>>
        \o [i \in 1..Len(s["messages"]) |->
              [type    |-> Get(s["messages"][i], "type", "user"),
               content |-> s["messages"][i].content]]

generate_direct(s, out) ==
    LET messages_for_llm == DirectMessagesForLLM(s)
        call == [llm |-> llm_gemini, messages |-> messages_for_llm]
    IN  IF out = "raises"
        THEN Raised("llm_gemini.invoke failed", <<call>>)
        ELSE Returned([messages |-> <<Invoke(llm_gemini, messages_for_llm)>>], <<call>>)

\* tools/web_search.py: None without a key, the Tavily tool with one
get_web_search_tool(key) == IF key = "" THEN "None" ELSE "TavilySearchResults"

SearchUnavailable ==
    "Web search is not available. Please provide a TAVILY_API_KEY in your environment variables."

\* what the search tool does with one query
SearchOutcomes ==
    {[kind |-> "result", text |-> "result one"],
     [kind |-> "result", text |-> ""],
     [kind |-> "raises", text |-> "timeout"],
     [kind |-> "raises", text |-> "401 Unauthorized"]}

\* variant: no try/except around the tool call
run_web_search_unguarded(s, key, out) ==
    LET search_tool == get_web_search_tool(key)
        call == [query |-> Last(s["messages"]).content,
                 kind |-> out.kind, text |-> out.text]
    IN  IF search_tool = "None"
        THEN Returned([context |-> SearchUnavailable], <<>>)
        ELSE IF out.kind = "raises"
        THEN Raised(out.text, <<call>>)
        ELSE Returned([context |-> out.text], <<call>>)

\* a logged call holds the query and what the tool did with it
run_web_search(s, key, out) ==
    LET search_tool == get_web_search_tool(key)
        call == [query |-> Last(s["messages"]).content,
                 kind |-> out.kind, text |-> out.text]
    IN  IF search_tool = "None"
        THEN Returned([context |-> SearchUnavailable], <<>>)
        ELSE IF out.kind = "raises"
        THEN Returned([context |-> "Web search failed: " \o out.text], <<call>>)
        ELSE Returned([context |-> out.text], <<call>>)

----------------------------------------------------------------------------
(* The routing graph: state reducer and edges *)

\* a node's update is folded into the state: messages are appended, every
\* other key is overwritten
Merge(s, update) ==
    [k \in DOMAIN s \cup DOMAIN update |->
        IF k \notin DOMAIN update THEN s[k]
        ELSE IF k = "messages" THEN Get(s, "messages", <<>>) \o update[k]
        ELSE update[k]]

\* entry -> route_check -> {retrieve_context -> generate_with_context |
\* generate_direct} -> end
NextNode(node, s) ==
    CASE node = "entry" -> "route_check"
      [] node = "route_check" ->
            IF check_for_rag(s) = "rag_retrieval"
            THEN "retrieve_context" ELSE "generate_direct"
      [] node = "retrieve_context" -> "generate_with_context"
      [] node = "generate_with_context" -> "end"
      [] node = "generate_direct" -> "end"

\* one node of request r has run with result res
NodeDone(r, node, res) ==
    /\ executed' = [executed EXCEPT ![r] = Append(@, node)]
    /\ IF res.error # ""
       THEN /\ pc' = [pc EXCEPT ![r] = "raised"]
            /\ exc' = [exc EXCEPT ![r] = res.error]
            /\ UNCHANGED state
       ELSE /\ state' = [state EXCEPT ![r] = Merge(@, res.update)]
            /\ pc' = [pc EXCEPT ![r] = NextNode(node, state'[r])]
            /\ UNCHANGED exc

\* no upload request exists
NoUploads ==
    /\ upc = [u \in Uploads |-> "idle"]
    /\ ufile = [u \in Uploads |-> EmptyDict]
    /\ upath = [u \in Uploads |-> ""]
    /\ uchunks = [u \in Uploads |-> <<>>]
    /\ uout = [u \in Uploads |-> EmptyDict]
    /\ closed = [u \in Uploads |-> FALSE]
    /\ parseLog = [u \in Uploads |-> <<>>]
    /\ addLog = [u \in Uploads |-> <<>>]
    /\ fs = {}
    /\ uuids = 0
    /\ loop = 0

----------------------------------------------------------------------------
(* Chat: Init and actions *)

Init ==
    /\ raw \in [Chats -> Bodies]
    /\ pc = [r \in Chats |-> "received"]
    /\ state = [r \in Chats |-> EmptyDict]
    /\ exc = [r \in Chats |-> ""]
    /\ response = [r \in Chats |-> EmptyDict]
    /\ executed = [r \in Chats |-> <<>>]
    /\ retrievalLog = [r \in Chats |-> <<>>]
    /\ llmLog = [r \in Chats |-> <<>>]
    /\ searchLog = [r \in Chats |-> <<>>]
    /\ tavily_api_key = ""
    /\ vstore = InitialStore
    /\ NoUploads

\* chat(): build the inputs and call agent_executer.ainvoke
ChatInvoke(r) ==
    /\ pc[r] = "received"
    /\ state' = [state EXCEPT ![r] = ChatInputs(ChatRequest(raw[r]))]
    /\ pc' = [pc EXCEPT ![r] = "entry"]
    /\ UNCHANGED <<raw, exc, response, executed, retrievalLog, llmLog,
                   searchLog, tavily_api_key,
                   vstore, uploadVars>>

AgentEntry(r) ==
    /\ pc[r] = "entry"
    /\ NodeDone(r, "entry", agent_entry(state[r]))
    /\ UNCHANGED <<raw, response, retrievalLog, llmLog, searchLog, tavily_api_key,
                   vstore, uploadVars>>

\* the router's return value selects the edge and is not folded into state
RouteCheck(r) ==
    /\ pc[r] = "route_check"
    /\ NodeDone(r, "route_check", Returned(EmptyDict, <<>>))
    /\ UNCHANGED <<raw, response, retrievalLog, llmLog, searchLog, tavily_api_key,
                   vstore, uploadVars>>

\* variant: the node runs on a state object shared by the requests in flight
RetrieveContext_shared_state(r) ==
    /\ pc[r] = "retrieve_context"
    /\ LET q == CHOOSE q \in DOMAIN state : state[q] # EmptyDict
       IN  \E out \in RetrievalOutcomes(vstore, Get(state[q], "session_id", "")) :
             LET res == retrieve_from_rag(state[q], out)
             IN  /\ NodeDone(r, "retrieve_context", res)
                 /\ retrievalLog' = [retrievalLog EXCEPT ![r] = @ \o res.calls]
    /\ UNCHANGED <<raw, response, llmLog, searchLog, tavily_api_key,
                   vstore, uploadVars>>

RetrieveContext(r) ==
    /\ pc[r] = "retrieve_context"
    /\ \E out \in RetrievalOutcomes(vstore, Get(state[r], "session_id", "")) :
         LET res == retrieve_from_rag(state[r], out)
         IN  /\ NodeDone(r, "retrieve_context", res)
             /\ retrievalLog' = [retrievalLog EXCEPT ![r] = @ \o res.calls]
    /\ UNCHANGED <<raw, response, llmLog, searchLog, tavily_api_key,
                   vstore, uploadVars>>

GenerateWithContext(r) ==
    /\ pc[r] = "generate_with_context"
    /\ \E out \in LLMOutcomes :
         LET res == generate_with_context(state[r], out)
         IN  /\ NodeDone(r, "generate_with_context", res)
             /\ llmLog' = [llmLog EXCEPT ![r] = @ \o res.calls]
    /\ UNCHANGED <<raw, response, retrievalLog, searchLog, tavily_api_key,
                   vstore, uploadVars>>

GenerateDirect(r) ==
    /\ pc[r] = "generate_direct"
    /\ \E out \in LLMOutcomes :
         LET res == generate_direct(state[r], out)
         IN  /\ NodeDone(r, "generate_direct", res)
             /\ llmLog' = [llmLog EXCEPT ![r] = @ \o res.calls]
    /\ UNCHANGED <<raw, response, retrievalLog, searchLog, tavily_api_key,
                   vstore, uploadVars>>

\* chat(): ainvoke returned, the reply is the last message's content
ChatReturn(r) ==
    /\ pc[r] = "end"
    /\ response' = [response EXCEPT ![r] =
                      [response |-> Last(state[r]["messages"]).content]]
    /\ pc' = [pc EXCEPT ![r] = "done"]
    /\ UNCHANGED <<raw, state, exc, executed, retrievalLog, llmLog,
                   searchLog, tavily_api_key,
                   vstore, uploadVars>>

\* variant: the handler returns the exception's text
ChatExcept_with_detail(r) ==
    /\ pc[r] = "raised"
    /\ response' = [response EXCEPT ![r] = [response |-> exc[r]]]
    /\ pc' = [pc EXCEPT ![r] = "done"]
    /\ UNCHANGED <<raw, state, exc, executed, retrievalLog, llmLog,
                   searchLog, tavily_api_key,
                   vstore, uploadVars>>

\* chat(): except Exception
ChatExcept(r) ==
    /\ pc[r] = "raised"
    /\ response' = [response EXCEPT ![r] = [response |-> GenericError]]
    /\ pc' = [pc EXCEPT ![r] = "done"]
    /\ UNCHANGED <<raw, state, exc, executed, retrievalLog, llmLog,
                   searchLog, tavily_api_key,
                   vstore, uploadVars>>

Next ==
    \E r \in Chats :
        \/ ChatInvoke(r)
        \/ AgentEntry(r)
        \/ RouteCheck(r)
        \/ RetrieveContext(r)
        \/ GenerateWithContext(r)
        \/ GenerateDirect(r)
        \/ ChatReturn(r)
        \/ ChatExcept(r)

Spec == Init /\ [][Next]_vars

----------------------------------------------------------------------------
(* Several chat requests in flight at once through the one agent_executer: *)
(* the event loop interleaves them between the nodes.                      *)

\* one request more than Spec runs
ConcurrentChats == 1..(MaxChat + 1)

ConcurrentBodies ==
    [session_id : SessionIds \ {""}, message : MessageTexts, use_rag : BOOLEAN]

InitConcurrent ==
    /\ raw \in [ConcurrentChats -> ConcurrentBodies]
    /\ pc = [r \in ConcurrentChats |-> "received"]
    /\ state = [r \in ConcurrentChats |-> EmptyDict]
    /\ exc = [r \in ConcurrentChats |-> ""]
    /\ response = [r \in ConcurrentChats |-> EmptyDict]
    /\ executed = [r \in ConcurrentChats |-> <<>>]
    /\ retrievalLog = [r \in ConcurrentChats |-> <<>>]
    /\ llmLog = [r \in ConcurrentChats |-> <<>>]
    /\ searchLog = [r \in ConcurrentChats |-> <<>>]
    /\ tavily_api_key = ""
    /\ vstore = InitialStore
    /\ NoUploads

NextConcurrent ==
    \E r \in ConcurrentChats :
        \/ ChatInvoke(r)
        \/ AgentEntry(r)
        \/ RouteCheck(r)
        \/ RetrieveContext(r)
        \/ GenerateWithContext(r)
        \/ GenerateDirect(r)
        \/ ChatReturn(r)
        \/ ChatExcept(r)

SpecConcurrent == InitConcurrent /\ [][NextConcurrent]_vars

----------------------------------------------------------------------------
(* The web-search node on its own: it is defined in nodes.py but no edge of  *)
(* the graph leads to it, so it is run here as a host application would run  *)
(* it, on the state a chat request enters the graph with.                    *)

ApiKeys == {"", "tvly-key"}

InitWebSearch ==
    /\ raw \in [Chats -> Bodies]
    /\ tavily_api_key \in ApiKeys
    /\ pc = [r \in Chats |-> "web_search"]
    /\ state = [r \in Chats |-> ChatInputs(ChatRequest(raw[r]))]
    /\ exc = [r \in Chats |-> ""]
    /\ response = [r \in Chats |-> EmptyDict]
    /\ executed = [r \in Chats |-> <<>>]
    /\ retrievalLog = [r \in Chats |-> <<>>]
    /\ llmLog = [r \in Chats |-> <<>>]
    /\ searchLog = [r \in Chats |-> <<>>]
    /\ vstore = InitialStore
    /\ NoUploads

RunWebSearch(r) ==
    /\ pc[r] = "web_search"
    /\ \E out \in SearchOutcomes :
         LET res == run_web_search(state[r], tavily_api_key, out)
         IN  /\ executed' = [executed EXCEPT ![r] = Append(@, "web_search")]
             /\ searchLog' = [searchLog EXCEPT ![r] = @ \o res.calls]
             /\ IF res.error # ""
                THEN /\ pc' = [pc EXCEPT ![r] = "raised"]
                     /\ exc' = [exc EXCEPT ![r] = res.error]
                     /\ UNCHANGED state
                ELSE /\ state' = [state EXCEPT ![r] = Merge(@, res.update)]
                     /\ pc' = [pc EXCEPT ![r] = "searched"]
                     /\ UNCHANGED exc
    /\ UNCHANGED <<raw, response, retrievalLog, llmLog, tavily_api_key,
                   vstore, uploadVars>>

NextWebSearch == \E r \in Chats : RunWebSearch(r)

SpecWebSearch == InitWebSearch /\ [][NextWebSearch]_vars

----------------------------------------------------------------------------
(* The two generation nodes applied to any state the graph can hand them:  *)
(* histories of several turns, message objects with and without a type     *)
(* attribute, system_prompt and context present or absent.  raw[1] keeps   *)
(* the state the node was called on.                                       *)

TurnTypes == {"human", "ai"}
Turns ==
    [type : TurnTypes, content : MessageTexts] \cup [content : MessageTexts]
Histories == UNION {[1..n -> Turns] : n \in 1..MaxHistory}
Contexts == {"A\n\nB"}
NodeStates ==
    {[messages |-> h] @@ o1 @@ o2 :
        h \in Histories,
        o1 \in {EmptyDict} \cup [system_prompt : CustomPrompts],
        o2 \in {EmptyDict} \cup [context : Contexts]}

InitNodes ==
    /\ \E s \in NodeStates :
         raw = [r \in Chats |-> IF r = 1 THEN s ELSE EmptyDict]
    /\ state = raw
    /\ \E node \in {"generate_direct", "generate_with_context"} :
         pc = [r \in Chats |-> IF r = 1 THEN node ELSE "idle"]
    /\ exc = [r \in Chats |-> ""]
    /\ response = [r \in Chats |-> EmptyDict]
    /\ executed = [r \in Chats |-> <<>>]
    /\ retrievalLog = [r \in Chats |-> <<>>]
    /\ llmLog = [r \in Chats |-> <<>>]
    /\ searchLog = [r \in Chats |-> <<>>]
    /\ tavily_api_key = ""
    /\ vstore = InitialStore
    /\ NoUploads

NextNodes == \E r \in Chats : GenerateDirect(r) \/ GenerateWithContext(r)

SpecNodes == InitNodes /\ [][NextNodes]_vars

----------------------------------------------------------------------------
(* Every node of nodes.py that writes the state: a request either runs the *)
(* routing graph from the endpoint or is handed to one of the two nodes    *)
(* no edge leads to, run_web_search and generate_gemini.                   *)

\* last messages handed to generate_gemini: padded, blank and plain
\* (the last one is wrapped in the characters 0x0b and 0x1f)
GeminiTexts == {"  Hello  ", "   ", "Write a poem\n", "Hello"}
GeminiBodies == [session_id : {"s1"}, message : GeminiTexts]

InitGemini ==
    /\ raw \in [Chats -> GeminiBodies]
    /\ pc = [r \in Chats |-> "generate_gemini"]
    /\ state = [r \in Chats |-> ChatInputs(ChatRequest(raw[r]))]
    /\ exc = [r \in Chats |-> ""]
    /\ response = [r \in Chats |-> EmptyDict]
    /\ executed = [r \in Chats |-> <<>>]
    /\ retrievalLog = [r \in Chats |-> <<>>]
    /\ llmLog = [r \in Chats |-> <<>>]
    /\ searchLog = [r \in Chats |-> <<>>]
    /\ tavily_api_key = ""
    /\ vstore = InitialStore
    /\ NoUploads

GenerateGemini(r) ==
    /\ pc[r] = "generate_gemini"
    /\ \E out \in LLMOutcomes :
         LET res == generate_gemini(state[r], out)
         IN  /\ executed' = [executed EXCEPT ![r] = Append(@, "generate_gemini")]
             /\ llmLog' = [llmLog EXCEPT ![r] = @ \o res.calls]
             /\ IF res.error # ""
                THEN /\ pc' = [pc EXCEPT ![r] = "raised_gemini"]
                     /\ exc' = [exc EXCEPT ![r] = res.error]
                     /\ UNCHANGED state
                ELSE /\ state' = [state EXCEPT ![r] = Merge(@, res.update)]
                     /\ pc' = [pc EXCEPT ![r] = "generated"]
                     /\ UNCHANGED exc
    /\ UNCHANGED <<raw, response, retrievalLog, searchLog, tavily_api_key,
                   vstore, uploadVars>>

NextGemini == \E r \in Chats : GenerateGemini(r)

SpecGemini == InitGemini /\ [][NextGemini]_vars

InitAllNodes == Init \/ InitWebSearch \/ InitGemini

NextAllNodes == Next \/ NextWebSearch \/ NextGemini

SpecAllNodes == InitAllNodes /\ [][NextAllNodes]_vars

----------------------------------------------------------------------------
(* Upload endpoint (api/v1/endpoints/upload.py) *)

UPLOAD_DIR == "temp_uploads"

MAX_FILE_SIZE == 50 * 1024 * 1024

\* what leaves a block of upload_file: an exception or the returned dict
HTTPException(status_code, detail) ==
    [kind |-> "HTTPException", status_code |-> status_code, detail |-> detail,
     body |-> EmptyDict]
PlainException(text) ==
    [kind |-> "Exception", status_code |-> 0, detail |-> text, body |-> EmptyDict]
ReturnValue(body) ==
    [kind |-> "return", status_code |-> 200, detail |-> "", body |-> body]

\* position of the last ch in s[1..i], 0 when there is none (str.rfind)
RECURSIVE RFind(_, _, _)
RFind(s, ch, i) ==
    IF i = 0 THEN 0
    ELSE IF SubSeq(s, i, i) = ch THEN i
    ELSE RFind(s, ch, i - 1)

\* os.path.splitext(p)[1]: from the last dot of the last path component,
\* leading dots of the component not counted
Splitext(p) ==
    LET sepIndex == RFind(p, "/", Len(p))
        dotIndex == RFind(p, ".", Len(p))
    IN  IF dotIndex > sepIndex
           /\ \E i \in (sepIndex + 1)..(dotIndex - 1) : SubSeq(p, i, i) # "."
        THEN SubSeq(p, dotIndex, Len(p))
        ELSE ""

\* f"{n / (1024*1024):.1f}": one decimal, ties to even
FormatMB(n) ==
    LET unit   == 1024 * 1024
        q      == (n * 10) \div unit
        rem    == (n * 10) % unit
        tenths == IF 2 * rem > unit \/ (2 * rem = unit /\ q % 2 = 1)
                  THEN q + 1 ELSE q
    IN  ToString(tenths \div 10) \o "." \o ToString(tenths % 10)

NoFileNameDetail == "No file name provided."

TooLargeDetail(n) ==
    "File too large. Maximum size allowed is 50MB. Your file is "
    \o FormatMB(n) \o "MB."

ParseFailedDetail(filename, e) ==
    "Could not parse the file '" \o filename
    \o "'. The file might be corrupted or in an unsupported format. Error: " \o e

NoTextDetail(filename) ==
    "Could not extract any text content from the file: " \o filename
    \o ". The file might be empty or contain only images."

EmbedFailedDetail(e) == "Failed to create embeddings for the document. " \o e

UnexpectedDetail(e) ==
    "An unexpected error occurred while processing the file: " \o e

SuccessBody(filename, document_chunks) ==
    [status       |-> "success",
     filename     |-> filename,
     chunks_added |-> Len(document_chunks),
     message      |-> "File processed and added to the knowledge base successfully."]

\* variant: the limit itself is rejected too
TooLarge_inclusive(file_content_len) == file_content_len >= MAX_FILE_SIZE

\* len(file_content) > MAX_FILE_SIZE
TooLarge(file_content_len) == file_content_len > MAX_FILE_SIZE

\* variant: the finally block does not delete the file
RemoveIfExists_skipped(files, file_path) == files

\* if os.path.exists(file_path): os.remove(file_path)
RemoveIfExists(files, file_path) == files \ {file_path}

\* the inner except clause around parse_file: raise HTTPException(400, ...)
ParseFailure(filename, e) == HTTPException(400, ParseFailedDetail(filename, e))

\* variant: the embedding failure is raised as a client error without detail
EmbedFailure_as_bad_request(e) ==
    HTTPException(400, "Failed to create embeddings for the document.")

\* the except clause around add_documents_to_store: raise HTTPException(500, ...)
EmbedFailure(e) == HTTPException(500, EmbedFailedDetail(e))

\* f"{uuid.uuid4()}{file_extension}" under UPLOAD_DIR; the n-th uuid drawn
FilePath(n, file_extension) ==
    UPLOAD_DIR \o "/" \o "uuid" \o ToString(n) \o file_extension

\* uploads posted to /upload
FileNames == {"", "report.pdf"}
FileSizes == {MAX_FILE_SIZE, MAX_FILE_SIZE + 1, 60 * 1024 * 1024}
UploadSessions == {"s1", "s2"}
UploadInputs == [filename : FileNames, size : FileSizes, session_id : UploadSessions]

\* what writing the temp file does: open() raises before creating it,
\* copyfileobj raises after it was created, or the file is written
SaveOutcomes == {"ok", "open_raises", "copy_raises"}

\* what document_parser.parse_file does: raises, or returns 0..MaxChunks chunks
ChunkPool == <<"c1", "c2", "c3", "c4">>
ParserOutcomes ==
    {[kind |-> "raises", chunks |-> <<>>]}
    \cup {[kind |-> "chunks", chunks |-> SubSeq(ChunkPool, 1, k)] : k \in 0..MaxChunks}

\* what vector_store.add_documents_to_store does
EmbedOutcomes == {"ok", "raises"}

InitUpload ==
    /\ raw = [r \in Chats |-> EmptyDict]
    /\ pc = [r \in Chats |-> "idle"]
    /\ state = [r \in Chats |-> EmptyDict]
    /\ exc = [r \in Chats |-> ""]
    /\ response = [r \in Chats |-> EmptyDict]
    /\ executed = [r \in Chats |-> <<>>]
    /\ retrievalLog = [r \in Chats |-> <<>>]
    /\ llmLog = [r \in Chats |-> <<>>]
    /\ searchLog = [r \in Chats |-> <<>>]
    /\ tavily_api_key = ""
    /\ vstore = [sid \in UploadSessions |-> <<>>]
    /\ ufile \in [Uploads -> UploadInputs]
    /\ upc = [u \in Uploads |-> "received"]
    /\ upath = [u \in Uploads |-> ""]
    /\ uchunks = [u \in Uploads |-> <<>>]
    /\ uout = [u \in Uploads |-> EmptyDict]
    /\ closed = [u \in Uploads |-> FALSE]
    /\ parseLog = [u \in Uploads |-> <<>>]
    /\ addLog = [u \in Uploads |-> <<>>]
    /\ fs = {}
    /\ uuids = 0
    /\ loop = 0

\* if not file.filename: raise 400; otherwise on to await file.read()
CheckFilename(u) ==
    /\ upc[u] = "received"
    /\ loop = 0
    /\ IF ufile[u].filename = ""
       THEN /\ uout' = [uout EXCEPT ![u] = HTTPException(400, NoFileNameDetail)]
            /\ upc' = [upc EXCEPT ![u] = "done"]
       ELSE /\ upc' = [upc EXCEPT ![u] = "await_read"]
            /\ UNCHANGED uout
    /\ UNCHANGED <<chatVars, vstore, ufile, upath, uchunks, closed, parseLog,
                   addLog, fs, uuids, loop>>

\* file.read() returned: the size check; otherwise on to await file.seek(0)
CheckSize(u) ==
    /\ upc[u] = "await_read"
    /\ loop = 0
    /\ IF TooLarge(ufile[u].size)
       THEN /\ uout' = [uout EXCEPT ![u] =
                          HTTPException(400, TooLargeDetail(ufile[u].size))]
            /\ upc' = [upc EXCEPT ![u] = "done"]
       ELSE /\ upc' = [upc EXCEPT ![u] = "await_seek"]
            /\ UNCHANGED uout
    /\ UNCHANGED <<chatVars, vstore, ufile, upath, uchunks, closed, parseLog,
                   addLog, fs, uuids, loop>>

\* file.seek(0) returned: the unique file_path; from here to the end of the
\* finally block's os.remove there is no await
MakePath(u) ==
    /\ upc[u] = "await_seek"
    /\ loop = 0
    /\ uuids' = uuids + 1
    /\ upath' = [upath EXCEPT ![u] = FilePath(uuids', Splitext(ufile[u].filename))]
    /\ upc' = [upc EXCEPT ![u] = "save"]
    /\ loop' = u
    /\ UNCHANGED <<chatVars, vstore, ufile, uchunks, uout, closed, parseLog,
                   addLog, fs>>

\* with open(file_path, "wb") as buffer: shutil.copyfileobj(file.file, buffer)
SaveFile(u) ==
    /\ upc[u] = "save"
    /\ loop = u
    /\ \E out \in SaveOutcomes :
         /\ fs' = IF out = "open_raises" THEN fs ELSE fs \cup {upath[u]}
         /\ IF out = "ok"
            THEN /\ upc' = [upc EXCEPT ![u] = "parse"]
                 /\ UNCHANGED uout
            ELSE /\ upc' = [upc EXCEPT ![u] = "except"]
                 /\ uout' = [uout EXCEPT ![u] =
                               PlainException(IF out = "open_raises"
                                              THEN "open failed" ELSE "copy failed")]
    /\ UNCHANGED <<chatVars, vstore, ufile, upath, uchunks, closed, parseLog,
                   addLog, uuids, loop>>

\* document_parser.parse_file, its except clause, and the empty-result check
ParseFile(u) ==
    /\ upc[u] = "parse"
    /\ loop = u
    /\ \E out \in ParserOutcomes :
       /\ parseLog' = [parseLog EXCEPT ![u] =
                         Append(@, [file_path |-> upath[u],
                                    file_extension |-> Splitext(ufile[u].filename),
                                    kind |-> out.kind,
                                    chunks |-> out.chunks])]
       /\
         IF out.kind = "raises"
         THEN /\ uout' = [uout EXCEPT ![u] =
                            ParseFailure(ufile[u].filename, "parser failed")]
              /\ upc' = [upc EXCEPT ![u] = "except"]
              /\ UNCHANGED uchunks
         ELSE IF out.chunks = <<>>
         THEN /\ uout' = [uout EXCEPT ![u] =
                            HTTPException(400, NoTextDetail(ufile[u].filename))]
              /\ upc' = [upc EXCEPT ![u] = "except"]
              /\ uchunks' = [uchunks EXCEPT ![u] = out.chunks]
         ELSE /\ uchunks' = [uchunks EXCEPT ![u] = out.chunks]
              /\ upc' = [upc EXCEPT ![u] = "embed"]
              /\ UNCHANGED uout
    /\ UNCHANGED <<chatVars, vstore, ufile, upath, closed, addLog, fs, uuids, loop>>

\* variant: only the first chunk is handed to the vector store
EmbedChunks_first_chunk_only(u) ==
    /\ upc[u] = "embed"
    /\ loop = u
    /\ \E out \in EmbedOutcomes :
       /\ addLog' = [addLog EXCEPT ![u] =
                       Append(@, [document_chunks |-> SubSeq(uchunks[u], 1, 1),
                                  session_id |-> ufile[u].session_id,
                                  kind |-> out])]
       /\
         IF out = "raises"
         THEN /\ uout' = [uout EXCEPT ![u] =
                            EmbedFailure("embedding failed")]
              /\ upc' = [upc EXCEPT ![u] = "except"]
              /\ UNCHANGED vstore
         ELSE /\ vstore' = [vstore EXCEPT ![ufile[u].session_id] =
                                             @ \o SubSeq(uchunks[u], 1, 1)]
              /\ uout' = [uout EXCEPT ![u] =
                            ReturnValue(SuccessBody(ufile[u].filename, uchunks[u]))]
              /\ upc' = [upc EXCEPT ![u] = "finally"]
    /\ UNCHANGED <<chatVars, ufile, upath, uchunks, closed, parseLog, fs, uuids, loop>>

\* vector_store.add_documents_to_store, its except clause, and the return
EmbedChunks(u) ==
    /\ upc[u] = "embed"
    /\ loop = u
    /\ \E out \in EmbedOutcomes :
       /\ addLog' = [addLog EXCEPT ![u] =
                       Append(@, [document_chunks |-> uchunks[u],
                                  session_id |-> ufile[u].session_id,
                                  kind |-> out])]
       /\
         IF out = "raises"
         THEN /\ uout' = [uout EXCEPT ![u] =
                            EmbedFailure("embedding failed")]
              /\ upc' = [upc EXCEPT ![u] = "except"]
              /\ UNCHANGED vstore
         ELSE /\ vstore' = [vstore EXCEPT ![ufile[u].session_id] = @ \o uchunks[u]]
              /\ uout' = [uout EXCEPT ![u] =
                            ReturnValue(SuccessBody(ufile[u].filename, uchunks[u]))]
              /\ upc' = [upc EXCEPT ![u] = "finally"]
    /\ UNCHANGED <<chatVars, ufile, upath, uchunks, closed, parseLog, fs, uuids, loop>>

\* variant: there is no "except HTTPException" clause before the catch-all
HandleExcept_wraps_all(u) ==
    /\ upc[u] = "except"
    /\ loop = u
    /\ uout' = [uout EXCEPT ![u] = HTTPException(500, UnexpectedDetail(@.detail))]
    /\ upc' = [upc EXCEPT ![u] = "finally"]
    /\ UNCHANGED <<chatVars, vstore, ufile, upath, uchunks, closed, parseLog,
                   addLog, fs, uuids, loop>>

\* except HTTPException: raise e / except Exception: raise HTTPException(500)
HandleExcept(u) ==
    /\ upc[u] = "except"
    /\ loop = u
    /\ uout' = [uout EXCEPT ![u] =
                  IF @.kind = "HTTPException" THEN @
                  ELSE HTTPException(500, UnexpectedDetail(@.detail))]
    /\ upc' = [upc EXCEPT ![u] = "finally"]
    /\ UNCHANGED <<chatVars, vstore, ufile, upath, uchunks, closed, parseLog,
                   addLog, fs, uuids, loop>>

\* finally: remove the temp file, then on to await file.close()
Cleanup(u) ==
    /\ upc[u] = "finally"
    /\ loop = u
    /\ fs' = RemoveIfExists(fs, upath[u])
    /\ upc' = [upc EXCEPT ![u] = "await_close"]
    /\ loop' = 0
    /\ UNCHANGED <<chatVars, vstore, ufile, upath, uchunks, uout, closed,
                   parseLog, addLog, uuids>>

\* file.close() returned: the pending exception or return value is delivered
CloseFile(u) ==
    /\ upc[u] = "await_close"
    /\ loop = 0
    /\ closed' = [closed EXCEPT ![u] = TRUE]
    /\ upc' = [upc EXCEPT ![u] = "done"]
    /\ UNCHANGED <<chatVars, vstore, ufile, upath, uchunks, uout, parseLog,
                   addLog, fs, uuids, loop>>

NextUpload ==
    \E u \in Uploads :
        \/ CheckFilename(u)
        \/ CheckSize(u)
        \/ MakePath(u)
        \/ SaveFile(u)
        \/ ParseFile(u)
        \/ EmbedChunks(u)
        \/ HandleExcept(u)
        \/ Cleanup(u)
        \/ CloseFile(u)

SpecUpload == InitUpload /\ [][NextUpload]_vars

----------------------------------------------------------------------------
(* Properties of the chat endpoint and the routing graph *)

Req(r) == ChatRequest(raw[r])

Range(s) == {s[i] : i \in 1..Len(s)}

IsPrefix(s, t) == Len(s) <= Len(t) /\ s = SubSeq(t, 1, Len(s))

\* the graph traversal of request r ran to its end
Completed(r) == pc[r] = "end" \/ (pc[r] = "done" /\ exc[r] = "")

TerminalNodes == {"generate_with_context", "generate_direct"}

TerminalRuns(r) == SelectSeq(executed[r], LAMBDA n : n \in TerminalNodes)

\* C1: a request whose use_rag flag is false or omitted never reaches the
\* retrieval backend: the router selects generate_direct, retrieve_context is
\* never entered and no call to get_retriever / retriever.invoke is made.
C1_DirectPathNeverRetrieves ==
    \A r \in Chats :
        ~Req(r).use_rag =>
            /\ retrievalLog[r] = <<>>
            /\ pc[r] \notin {"retrieve_context", "generate_with_context"}
            /\ "retrieve_context" \notin Range(executed[r])
            /\ IsPrefix(executed[r], <<"entry", "route_check", "generate_direct">>)
            /\ (executed[r] # <<>> /\ Last(executed[r]) = "route_check")
                  => pc[r] = "generate_direct"

C1_Witness ==
    \E r \in Chats :
        /\ "use_rag" \notin DOMAIN raw[r]
        /\ pc[r] = "done"
        /\ exc[r] = ""
        /\ executed[r] = <<"entry", "route_check", "generate_direct">>

\* the calls one retrieval makes for request r
ExpectedRetrieval(r) ==
    <<[op |-> "get_retriever", session_id |-> Req(r).session_id, query |-> ""],
      [op |-> "invoke", session_id |-> Req(r).session_id, query |-> Req(r).message]>>

\* C2: a request with use_rag = true and a non-empty session_id invokes the
\* retrieval backend exactly once in a traversal, with the request's own
\* session_id and the text of its last user message.
C2_RetrievesOnceWithOwnSessionAndQuery ==
    \A r \in Chats :
        (Req(r).use_rag /\ Req(r).session_id # "") =>
            /\ IsPrefix(retrievalLog[r], ExpectedRetrieval(r))
            /\ "retrieve_context" \in Range(executed[r]) <=> retrievalLog[r] # <<>>
            /\ (pc[r] = "generate_with_context" \/ Completed(r))
                  => retrievalLog[r] = ExpectedRetrieval(r)

C2_Witness ==
    \E r \in Chats :
        /\ Req(r).use_rag
        /\ Req(r).session_id = "s1"
        /\ pc[r] = "done"
        /\ exc[r] = ""
        /\ retrievalLog[r] = ExpectedRetrieval(r)

\* C3: with use_rag = true and an empty session_id, retrieve_context sets
\* context to the fixed diagnostic string without calling the backend, does
\* not abort the request, and generate_with_context runs with that string
\* as its context.
C3_MissingSessionDegrades ==
    \A r \in Chats :
        (Req(r).use_rag /\ Req(r).session_id = "") =>
            /\ retrievalLog[r] = <<>>
            /\ "retrieve_context" \in Range(executed[r])
                  => /\ state[r]["context"] = NoSessionContext
                     /\ pc[r] \in {"generate_with_context", "end", "raised", "done"}
            /\ (executed[r] # <<>> /\ Last(executed[r]) = "retrieve_context")
                  => pc[r] = "generate_with_context"
            /\ "generate_with_context" \in Range(executed[r])
                  => /\ Len(llmLog[r]) = 1
                     /\ Last(llmLog[r][1].messages).content
                            = RagPrompt(Req(r).system_prompt, NoSessionContext,
                                        Req(r).message)
            /\ Completed(r) => "generate_with_context" \in Range(executed[r])

C3_Witness ==
    \E r \in Chats :
        /\ Req(r).use_rag
        /\ Req(r).session_id = ""
        /\ pc[r] = "done"
        /\ exc[r] = ""
        /\ state[r]["context"] = NoSessionContext
        /\ Len(llmLog[r]) = 1

\* C4: generate_with_context calls the chat model configured with temperature
\* 0.7 and generate_direct the one configured with temperature 0.
C4_RagUsesCreativeModel ==
    \A r \in Chats :
        \A i \in 1..Len(llmLog[r]) :
            llmLog[r][i].llm.temperature_x10 = IF Req(r).use_rag THEN 7 ELSE 0

\* C5: the endpoint answers every request with {response: text}: the content
\* of the final state's last message, which is the chat model's reply, when
\* the traversal completed, and exactly the generic string when anything
\* raised; a request that has not answered can always take a step.
C5_ReplyOrGenericError ==
    \A r \in Chats :
        /\ pc[r] = "done" =>
              /\ DOMAIN response[r] = {"response"}
              /\ IF exc[r] = ""
                 THEN /\ response[r]["response"] = Last(state[r]["messages"]).content
                      /\ llmLog[r] # <<>>
                      /\ Last(state[r]["messages"])
                            = Invoke(Last(llmLog[r]).llm, Last(llmLog[r]).messages)
                 ELSE response[r]["response"] = GenericError
        /\ pc[r] # "done" => response[r] = EmptyDict /\ ENABLED Next

C5_Witness ==
    \E r \in Chats :
        /\ pc[r] = "done"
        /\ exc[r] # ""
        /\ response[r] = [response |-> GenericError]

\* C6: the retrieval node never raises: a failure of get_retriever or of
\* retriever.invoke becomes a string in context and generate_with_context runs.
C6_RetrievalNodeNeverRaises ==
    \A r \in Chats :
        (executed[r] # <<>> /\ Last(executed[r]) = "retrieve_context")
            => /\ pc[r] = "generate_with_context"
               /\ "context" \in DOMAIN state[r]

\* C7: the web-search node always returns a context string and never
\* raises: without a search credential the 'not available' text and no tool
\* call; when the tool raises, 'Web search failed: ' and the error; otherwise
\* the tool's result. No state field other than context changes.
C7_WebSearchAlwaysReturnsContext ==
    \A r \in Chats :
        /\ pc[r] \in {"web_search", "searched"}
        /\ exc[r] = ""
        /\ pc[r] = "web_search" => ENABLED NextWebSearch
        /\ pc[r] = "searched" =>
              LET pre == ChatInputs(Req(r))
              IN  /\ DOMAIN state[r] = DOMAIN pre \cup {"context"}
                  /\ \A k \in DOMAIN pre : state[r][k] = pre[k]
                  /\ IF tavily_api_key = ""
                     THEN /\ state[r]["context"] = SearchUnavailable
                          /\ searchLog[r] = <<>>
                     ELSE /\ Len(searchLog[r]) = 1
                          /\ searchLog[r][1].query = Req(r).message
                          /\ state[r]["context"] =
                                IF searchLog[r][1].kind = "raises"
                                THEN "Web search failed: " \o searchLog[r][1].text
                                ELSE searchLog[r][1].text

C7_Witness ==
    \E r \in Chats :
        /\ pc[r] = "searched"
        /\ tavily_api_key # ""
        /\ Len(searchLog[r]) = 1
        /\ searchLog[r][1].kind = "raises"
        /\ state[r]["context"] = "Web search failed: timeout"

\* C8: a traversal that reaches end has run exactly one terminal generation
\* node, once, and its messages are the entry messages plus one reply; no
\* traversal runs both terminal nodes.
C8_OneTerminalNodeOneReply ==
    \A r \in Chats :
        /\ Len(TerminalRuns(r)) <= 1
        /\ Completed(r) =>
              /\ Len(TerminalRuns(r)) = 1
              /\ Len(state[r]["messages"]) = 2
              /\ Front(state[r]["messages"]) = ChatInputs(Req(r)).messages
              /\ Last(state[r]["messages"]).type = "ai"

C8_Witness ==
    \E r \in Chats :
        /\ Req(r).use_rag
        /\ pc[r] = "end"
        /\ TerminalRuns(r) = <<"generate_with_context">>
        /\ Len(state[r]["messages"]) = 2

----------------------------------------------------------------------------
(* Properties of the upload endpoint *)

SizeRejection(u) == HTTPException(400, TooLargeDetail(ufile[u].size))

\* the request never got past the two checks that precede the try block
BeforeTempFile(u) ==
    /\ upc[u] \in {"received", "await_read", "done"}
    /\ upath[u] = ""
    /\ parseLog[u] = <<>>
    /\ addLog[u] = <<>>

\* C9 (as stated): every file over 50 MB is rejected with the size-limit
\* error before the temp file is created and before any parser or
\* vector-store call; a file of 50 MB or less is never rejected for size.
C9_OversizeRejectedWithSizeError ==
    \A u \in Uploads :
        /\ ufile[u].size > 50 * 1024 * 1024 =>
              /\ BeforeTempFile(u)
              /\ upc[u] = "done" => uout[u] = SizeRejection(u)
        /\ (ufile[u].size <= 50 * 1024 * 1024 /\ upc[u] = "done")
              => uout[u] # SizeRejection(u)

\* C9 (amended): every file over 50 MB is rejected before the temp file is
\* created and before any parser or vector-store call, with the size-limit
\* error when it has a filename and with the missing-filename error when it
\* has none; a named file of 50 MB or less passes the size check.
C9_OversizeRejectedBeforeProcessing ==
    \A u \in Uploads :
        /\ ufile[u].size > 50 * 1024 * 1024 =>
              /\ BeforeTempFile(u)
              /\ upc[u] = "done" =>
                    uout[u] = IF ufile[u].filename = ""
                              THEN HTTPException(400, NoFileNameDetail)
                              ELSE SizeRejection(u)
        /\ (ufile[u].size <= 50 * 1024 * 1024 /\ upc[u] = "done") =>
              /\ uout[u] # SizeRejection(u)
              /\ ufile[u].filename # "" => upath[u] # ""

C9_Witness ==
    \E u \in Uploads :
        /\ ufile[u].filename = "report.pdf"
        /\ ufile[u].size = 60 * 1024 * 1024
        /\ upc[u] = "done"
        /\ uout[u].status_code = 400
        /\ uout[u].detail
              = "File too large. Maximum size allowed is 50MB. Your file is 60.0MB."
        /\ \E v \in Uploads :
              /\ ufile[v].size = 50 * 1024 * 1024
              /\ upc[v] = "done"
              /\ uout[v].kind = "return"

\* C10: once an upload request has completed, on whichever branch, the temp
\* file it created is not in temp_uploads; requests have distinct temp
\* files, and a file present belongs to a request that is still between
\* creating it and its finally block.
C10_TempFileAbsentAfterCompletion ==
    /\ \A u \in Uploads : upc[u] \in {"await_close", "done"} => upath[u] \notin fs
    /\ \A u, v \in Uploads : (u # v /\ upath[u] # "") => upath[u] # upath[v]
    /\ fs \subseteq {upath[u] : u \in {v \in Uploads :
                        upc[v] \in {"parse", "embed", "except", "finally"}}}
    /\ (\A u \in Uploads : upc[u] = "done") => fs = {}

C10_Witness ==
    \E u, v \in Uploads :
        /\ u # v
        /\ upc[u] = "done"
        /\ uout[u] = HTTPException(500, UnexpectedDetail("copy failed"))
        /\ upath[u] # ""
        /\ upc[v] = "parse"
        /\ fs = {upath[v]}

\* C11: upload_file closes the uploaded file's stream on every exit path,
\* the missing-filename and oversize rejections included.
C11_StreamClosedOnEveryExit ==
    \A u \in Uploads : upc[u] = "done" => closed[u]

\* how upload request u failed, read off the calls it made
ParserRaised(u) == parseLog[u] # <<>> /\ Last(parseLog[u]).kind = "raises"
EmptyExtraction(u) ==
    parseLog[u] # <<>> /\ Last(parseLog[u]).kind = "chunks"
                       /\ Last(parseLog[u]).chunks = <<>>
EmbedRaised(u) == addLog[u] # <<>> /\ Last(addLog[u]).kind = "raises"
ValidationFailed(u) ==
    \/ ufile[u].filename = ""
    \/ TooLarge(ufile[u].size)
    \/ EmptyExtraction(u)
ClientError(out) == out.kind = "HTTPException" /\ out.status_code \in 400..499
ServerError(out) == out.kind = "HTTPException" /\ out.status_code \in 500..599

\* C12 (as stated): a parser failure and an embedding failure both reach the
\* caller as a 5xx whose message carries the backend's error detail, and the
\* validation failures (no filename, oversize, empty extraction) as a 4xx.
C12_BackendFailuresAreServerErrors ==
    \A u \in Uploads :
        upc[u] = "done" =>
            /\ ParserRaised(u) =>
                 ServerError(uout[u]) /\ Contains(uout[u].detail, "parser failed")
            /\ EmbedRaised(u) =>
                 ServerError(uout[u]) /\ Contains(uout[u].detail, "embedding failed")
            /\ ValidationFailed(u) => ClientError(uout[u])

\* C12 (amended): an embedding failure reaches the caller as a 500 whose message
\* carries the backend's error detail; a parser failure reaches the caller as a
\* 400 whose message names the file and carries the parser's error detail; the
\* validation failures reach the caller as a 4xx.
C12_ParseFailureIsClientError ==
    \A u \in Uploads :
        upc[u] = "done" =>
            /\ ParserRaised(u) =>
                 /\ uout[u].kind = "HTTPException" /\ uout[u].status_code = 400
                 /\ Contains(uout[u].detail, "'" \o ufile[u].filename \o "'")
                 /\ Contains(uout[u].detail, "parser failed")
            /\ EmbedRaised(u) =>
                 /\ uout[u].kind = "HTTPException" /\ uout[u].status_code = 500
                 /\ Contains(uout[u].detail, "embedding failed")
            /\ ValidationFailed(u) => ClientError(uout[u])

\* one upload failed in the parser, the other in the embedding call
C12_Witness ==
    \E u, v \in Uploads :
        /\ upc[u] = "done" /\ ParserRaised(u) /\ uout[u].status_code = 400
        /\ upc[v] = "done" /\ EmbedRaised(v) /\ uout[v].status_code = 500

StartsWith(s, prefix) ==
    Len(prefix) <= Len(s) /\ SubSeq(s, 1, Len(prefix)) = prefix

EndsWith(s, suffix) ==
    Len(suffix) <= Len(s) /\ SubSeq(s, Len(s) - Len(suffix) + 1, Len(s)) = suffix

\* C13: generate_direct sends len(messages)+1 entries: first a system entry
\* holding the state's system_prompt unmodified (the default persona when the
\* state has none), then the state's messages in their order, each with its own
\* role ("user" only when the message has no type) and its content unchanged.
C13_DirectPromptIsSystemPlusHistory ==
    \A r \in Chats :
        "generate_direct" \in Range(executed[r]) =>
            /\ Len(llmLog[r]) = 1
            /\ LET sent == llmLog[r][1].messages
                   msgs == raw[r]["messages"]
               IN  /\ Len(sent) = Len(msgs) + 1
                   /\ sent[1].type = "system"
                   /\ sent[1].content =
                        IF "system_prompt" \in DOMAIN raw[r]
                        THEN raw[r]["system_prompt"]
                        ELSE "You are a helpful AI assistant."
                   /\ \A i \in 1..Len(msgs) :
                        /\ sent[i + 1].content = msgs[i].content
                        /\ sent[i + 1].type =
                             IF "type" \in DOMAIN msgs[i] THEN msgs[i].type
                             ELSE "user"

\* a two-turn history whose turns differ in role, one of them without a type,
\* sent without a system_prompt in the state
C13_Witness ==
    \E r \in Chats :
        /\ "generate_direct" \in Range(executed[r])
        /\ "system_prompt" \notin DOMAIN raw[r]
        /\ Len(raw[r]["messages"]) = 2
        /\ "type" \notin DOMAIN raw[r]["messages"][1]
        /\ Get(raw[r]["messages"][2], "type", "") = "ai"
        /\ Len(llmLog[r]) = 1 /\ Len(llmLog[r][1].messages) = 3

\* C14: generate_with_context sends as many entries as the state has messages:
\* all but the last unchanged from the state, the last a single user entry
\* holding the assembled block (persona first, then the context and the last
\* turn's text verbatim between their delimiters) in place of the last turn;
\* the state's own messages keep the original last turn.
C14_RagPromptReplacesLastTurn ==
    \A r \in Chats :
        "generate_with_context" \in Range(executed[r]) =>
            /\ Len(llmLog[r]) = 1
            /\ LET sent == llmLog[r][1].messages
                   msgs == raw[r]["messages"]
                   n == Len(msgs)
               IN  /\ Len(sent) = n
                   /\ \A i \in 1..(n - 1) : sent[i] = msgs[i]
                   /\ sent[n].type = "user"
                   /\ StartsWith(sent[n].content,
                                 Get(raw[r], "system_prompt",
                                     "You are a helpful AI assistant."))
                   /\ EndsWith(sent[n].content,
                               "DOCUMENT SNIPPETS:\n    ---\n    "
                               \o Get(raw[r], "context", "")
                               \o "\n    ---\n\n    USER'S QUESTION:\n    \""
                               \o msgs[n].content \o "\"\n    ")
                   /\ IsPrefix(msgs, state[r]["messages"])
                   /\ Len(state[r]["messages"]) \in {n, n + 1}
                   /\ pc[r] = "end" =>
                        /\ Len(state[r]["messages"]) = n + 1
                        /\ Last(state[r]["messages"]).type = "ai"

\* a two-turn history with a context in the state, answered
C14_Witness ==
    \E r \in Chats :
        /\ "generate_with_context" \in Range(executed[r])
        /\ pc[r] = "end"
        /\ Len(raw[r]["messages"]) = 2
        /\ raw[r]["messages"][1] # raw[r]["messages"][2]
        /\ "context" \in DOMAIN raw[r]
        /\ Len(llmLog[r]) = 1 /\ Len(llmLog[r][1].messages) = 2

\* what the retriever can hand back for a session: the joined k best snippets
OwnContexts(session_id) ==
    {Join("\n\n", SubSeq(StoreDocs(vstore, session_id), 1, k)) :
        k \in 0..Len(StoreDocs(vstore, session_id))}

\* the reply the model gives to request r's own message, persona and context
OwnReply(r) ==
    LET inputs == ChatInputs(Req(r))
    IN  IF Req(r).use_rag
        THEN Invoke(llm_gemini,
                    RagMessagesForLLM(inputs @@ [context |-> state[r]["context"]]))
        ELSE Invoke(llm_gemini, DirectMessagesForLLM(inputs))

\* C15: with several requests in flight through the shared graph, every
\* retrieval call of a request carries that request's session_id and message,
\* its context is made of snippets stored for its own session, and the reply it
\* returns is the model's answer to its own message, persona and context.
C15_RequestsAreIsolated ==
    \A r \in ConcurrentChats :
        /\ \A i \in 1..Len(retrievalLog[r]) :
             /\ retrievalLog[r][i].session_id = Req(r).session_id
             /\ retrievalLog[r][i].op = "invoke" =>
                  retrievalLog[r][i].query = Req(r).message
        /\ "context" \in DOMAIN state[r] =>
             state[r]["context"] \in OwnContexts(Req(r).session_id)
        /\ pc[r] # "received" =>
             /\ state[r]["session_id"] = Req(r).session_id
             /\ state[r]["messages"][1] = HumanMessage(Req(r).message)
        /\ (pc[r] = "done" /\ exc[r] = "") =>
             response[r] = [response |-> OwnReply(r).content]

\* two requests of different sessions are both between retrieval and
\* generation, each holding its own session's snippets
C15_Witness ==
    \E r, q \in ConcurrentChats :
        /\ Req(r).session_id = "s1" /\ Req(q).session_id = "s2"
        /\ pc[r] = "generate_with_context" /\ pc[q] = "generate_with_context"
        /\ state[r]["context"] = "A\n\nB"
        /\ state[q]["context"] = "Z"

EntryFields == {"session_id", "use_rag", "system_prompt"}

\* one step of request r leaves its state within the frame of the node it was at
FrameStep(r) ==
    LET s == state[r]
        s2 == state'[r]
    IN  pc[r] # "received" =>
          /\ \A k \in EntryFields : k \in DOMAIN s2 /\ s2[k] = s[k]
          /\ IsPrefix(s["messages"], s2["messages"])
          /\ s2["messages"] # s["messages"] =>
                /\ pc[r] \in TerminalNodes \cup {"generate_gemini"}
                /\ Len(s2["messages"]) = Len(s["messages"]) + 1
          /\ pc[r] \in {"entry", "route_check"} => s2 = s
          /\ pc[r] \in {"retrieve_context", "web_search"} =>
                /\ DOMAIN s2 \ {"context"} = DOMAIN s \ {"context"}
                /\ \A k \in DOMAIN s \ {"context"} : s2[k] = s[k]

\* the state of request r still holds what the endpoint put in
EntryValuesKept(r) ==
    pc[r] # "received" =>
        /\ state[r]["session_id"] = Req(r).session_id
        /\ state[r]["use_rag"] = Req(r).use_rag
        /\ state[r]["system_prompt"] = Req(r).system_prompt
        /\ IsPrefix(<<HumanMessage(Req(r).message)>>, state[r]["messages"])

\* C16: in every state of a traversal session_id, use_rag and system_prompt
\* hold their entry values and messages starts with the entry messages; no
\* step removes or rewrites a message and only a generation node adds one;
\* entry and route_check change no field; the retrieval and web-search nodes
\* change only context.
C16_NodesKeepTheirFrame ==
    /\ [](\A r \in Chats : EntryValuesKept(r))
    /\ [][\A r \in Chats : FrameStep(r)]_vars

\* a RAG traversal ran to its end: context written, one message added
C16_Witness ==
    \E r \in Chats :
        /\ executed[r] = <<"entry", "route_check", "retrieve_context",
                           "generate_with_context">>
        /\ pc[r] = "end"
        /\ state[r]["context"] = "A\n\nB"
        /\ Len(state[r]["messages"]) = 2
        /\ state[r]["session_id"] = "s1"

\* the nodes of request r's path, in order
PathOf(r) ==
    IF Req(r).use_rag
    THEN <<"entry", "route_check", "retrieve_context", "generate_with_context">>
    ELSE <<"entry", "route_check", "generate_direct">>

GraphNodes ==
    {"entry", "route_check", "retrieve_context", "generate_with_context",
     "generate_direct"}

\* C17: the nodes a request has run are a prefix of its path and the one node
\* it is at is the next of the path; on the RAG path generate_with_context is
\* reached only with context set by a completed retrieve_context, and the
\* prompt it sends holds that context; on the direct path context is never in
\* the state and the prompt sent is the persona and the history alone.
C17_NodesRunInPathOrder ==
    \A r \in Chats :
        /\ IsPrefix(executed[r], PathOf(r))
        /\ pc[r] \in GraphNodes => pc[r] = PathOf(r)[Len(executed[r]) + 1]
        /\ pc[r] \in {"received", "entry"} => executed[r] = <<>>
        /\ pc[r] = "end" => executed[r] = PathOf(r)
        /\ "context" \in DOMAIN state[r] =>
             Req(r).use_rag /\ "retrieve_context" \in Range(executed[r])
        /\ pc[r] = "generate_with_context" => "context" \in DOMAIN state[r]
        /\ llmLog[r] # <<>> =>
             IF Req(r).use_rag
             THEN /\ "context" \in DOMAIN state[r]
                  /\ EndsWith(Last(llmLog[r][1].messages).content,
                              "DOCUMENT SNIPPETS:\n    ---\n    "
                              \o state[r]["context"]
                              \o "\n    ---\n\n    USER'S QUESTION:\n    \""
                              \o Req(r).message \o "\"\n    ")
             ELSE llmLog[r][1].messages =
                     <<[type |-> "system", content |-> Req(r).system_prompt],
                       HumanMessage(Req(r).message)>>

\* a RAG request reached generate_with_context with the retrieved snippets
C17_Witness ==
    \E r \in Chats :
        /\ pc[r] = "generate_with_context"
        /\ executed[r] = <<"entry", "route_check", "retrieve_context">>
        /\ state[r]["context"] = "A\n\nB"

\* C18: add_documents_to_store is called at most once per upload, only after
\* parse_file returned a non-empty chunk list for a named file within the size
\* limit, with all of those chunks and the request's session_id; a successful
\* upload made that call and reports chunks_added as the number of chunks
\* passed to it.
C18_EmbedOnlyAfterNonEmptyParse ==
    \A u \in Uploads :
        /\ Len(addLog[u]) <= 1
        /\ addLog[u] # <<>> =>
             /\ ufile[u].filename # ""
             /\ ufile[u].size <= 50 * 1024 * 1024
             /\ Len(parseLog[u]) = 1
             /\ parseLog[u][1].kind = "chunks"
             /\ parseLog[u][1].chunks # <<>>
             /\ addLog[u][1].document_chunks = parseLog[u][1].chunks
             /\ addLog[u][1].session_id = ufile[u].session_id
        /\ (upc[u] = "done" /\ uout[u].kind = "return") =>
             /\ Len(addLog[u]) = 1
             /\ addLog[u][1].kind = "ok"
             /\ uout[u].body.status = "success"
             /\ uout[u].body.chunks_added = Len(addLog[u][1].document_chunks)

\* an upload of several chunks succeeded while another stopped at an empty
\* extraction without reaching the vector store
C18_Witness ==
    \E u, v \in Uploads :
        /\ upc[u] = "done" /\ uout[u].kind = "return"
        /\ uout[u].body.chunks_added = MaxChunks
        /\ Len(addLog[u]) = 1
        /\ upc[v] = "done" /\ EmptyExtraction(v) /\ addLog[v] = <<>>

\* writing the temp file failed: the block was entered and the parser never called
SaveFailed(u) ==
    upath[u] # "" /\ parseLog[u] = <<>> /\ upc[u] \notin {"save", "parse"}

\* C19: an HTTP error raised inside the try block (parse failure, empty
\* extraction, embedding failure) is delivered with the status code and detail
\* it was raised with, a failure writing the temp file is delivered as a 500
\* "unexpected error" carrying its text, and in each case the temp file is gone
\* and the stream closed when the error is delivered.
C19_ProcessingErrorsKeepStatusAndDetail ==
    \A u \in Uploads :
        upc[u] = "done" =>
            /\ ParserRaised(u) =>
                 /\ uout[u].status_code = 400
                 /\ StartsWith(uout[u].detail, "Could not parse the file '")
            /\ EmptyExtraction(u) =>
                 /\ uout[u].status_code = 400
                 /\ StartsWith(uout[u].detail,
                               "Could not extract any text content from the file: ")
            /\ EmbedRaised(u) =>
                 /\ uout[u].status_code = 500
                 /\ StartsWith(uout[u].detail,
                               "Failed to create embeddings for the document. ")
            /\ SaveFailed(u) =>
                 /\ uout[u].status_code = 500
                 /\ StartsWith(uout[u].detail,
                        "An unexpected error occurred while processing the file: ")
                 /\ \/ EndsWith(uout[u].detail, "open failed")
                    \/ EndsWith(uout[u].detail, "copy failed")
            /\ (ParserRaised(u) \/ EmptyExtraction(u) \/ EmbedRaised(u)
                  \/ SaveFailed(u)) =>
                 /\ uout[u].kind = "HTTPException"
                 /\ closed[u]
                 /\ upath[u] \notin fs

\* one upload failed in the embedding call and another while copying the
\* upload to the temp file; both errors were delivered
C19_Witness ==
    \E u, v \in Uploads :
        /\ upc[u] = "done" /\ EmbedRaised(u)
        /\ StartsWith(uout[u].detail, "Failed to create embeddings")
        /\ upc[v] = "done" /\ SaveFailed(v)
        /\ EndsWith(uout[v].detail, "copy failed")
        /\ closed[u] /\ closed[v]

====
